---- MODULE Spec2Model ----
(***************************************************************************)
(* fbtools (official): the webhook listener, the feed/message classifier   *)
(* and the event dispatcher, as state machines.                            *)
(*                                                                         *)
(*   SpecDispatch  EventDispatcher.register / EventDispatcher.invoke       *)
(*   SpecFeed      handle_feed_event and the invocations it schedules      *)
(*   SpecListener  Listener's GET /webhook and POST /webhook routes        *)
(*   SpecEndToEnd  the listener together with the dispatcher               *)
(*   SpecVerify    GET /webhook alone                                      *)
(*   SpecReaction  handle_feed_event on reaction changes                   *)
(*   SpecMessage   handle_message_event                                    *)
(*   SpecValidateMessage, SpecValidateComment, SpecValidateFeed            *)
(*                 pydantic validation of Message, of the Comment family   *)
(*                 and of the FacebookFeed.value union                     *)
(*   SpecLogin     GraphSession.login_with_access_token                    *)
(*   SpecNodes     FacebookPost / FacebookComment initialization           *)
(*   SpecMessenger FacebookMessage.send_attachments and the upload cache   *)
(*   SpecListenerMulti, SpecDedupKey, SpecEntries                          *)
(*                 POST /webhook with several changes, with variants of    *)
(*                 one photo post, and envelopes with several entries      *)
(*                                                                         *)
(* Python objects are records.  A class object is [kind |-> "class",       *)
(* cls |-> name]; an instance is [kind |-> "instance", cls |-> name,       *)
(* attrs |-> the attributes __init__ stored].                              *)
(***************************************************************************)
EXTENDS Integers, Sequences, FiniteSets, TLC

VARIABLES
    handlers,      \* EventDispatcher.handlers: class name -> list of HandlerDict
    regs,          \* number of register calls made so far
    invocations,   \* the invoke coroutines created so far (scheduled, suspended or ended)
    feedCalls,     \* history: the Page objects handle_feed_event or
                   \* handle_message_event was called with
    cache,         \* Listener.cache: the keys of the FIFOCache, oldest first
    requests,      \* the webhook POST requests in flight, by worker slot
    log,           \* history: one record per dedup lookup, in the order they ran
    arrivals,      \* number of POST requests received so far
    verifications, \* history: the GET /webhook requests with their responses
    validations,   \* the payload handed to a pydantic model, with the outcome
    graph,         \* GraphSession: access_token and its login calls
    nodes,         \* the FacebookPost and FacebookComment objects of an event
    messenger      \* Cache._cache (key -> upload whose future it holds), the
                   \* upload requests and the sends of local files

vars == <<handlers, regs, invocations, feedCalls, cache, requests, log, arrivals,
          verifications, validations, graph, nodes, messenger>>

-----------------------------------------------------------------------------
(* Bounds *)

MaxRegs == 3          \* register calls in a run
MaxInvocations == 1   \* invoke coroutines in a run
MaxFeedCalls == 1     \* handle_feed_event calls in a run
MaxChanges == 2       \* changes in one entry
MaxEntries == 2       \* entries in one envelope
MaxWorkers == 2       \* POST requests in flight at once
maxsize == 2          \* FIFOCache(maxsize=1024), scaled down
MaxVerifications == 3 \* GET /webhook requests in a run
MaxPosts == 1         \* POST /webhook requests in a run of SpecReaction
MaxIdLen == 3         \* characters in a post_id or parent_id
MaxLogins == 2        \* login_with_access_token calls on one session object
MaxNodeCalls == 3     \* initialize / refresh calls on one post or comment object
MaxSends == 2         \* sends of a local-file attachment
MaxLives == 2         \* lives of cache entries: one more than the evictions

HandlerFuncs == {"h1", "h2"}
Priorities == {0, 1}

-----------------------------------------------------------------------------
(* Generic helpers *)

Range(s) == {s[i] : i \in 1..Len(s)}

Occurrences(s, x) == Cardinality({i \in 1..Len(s) : s[i] = x})

Min(a, b) == IF a <= b THEN a ELSE b

\* The last n elements of s (all of s when it is shorter).
LastN(s, n) == SubSeq(s, Len(s) - Min(n, Len(s)) + 1, Len(s))

-----------------------------------------------------------------------------
(* events/models.py, events/dispatcher.py: events *)

EventTypes == {"onNewPost", "onPostReaction", "onComment", "onCommentReaction",
               "onMessage", "onMessageReaction"}

ClassObject(T) == [kind |-> "class", cls |-> T]

\* type(x) of a Python object: a class object's type is `type`, not the class.
TypeOf(x) == IF x.kind = "instance" THEN x.cls ELSE "type"

\* onNewPost.__init__ : with_attachment is accepted and not stored.
onNewPost(post_object, message, post_id, with_attachment, created_time) ==
    [kind |-> "instance", cls |-> "onNewPost",
     attrs |-> [post_object |-> post_object, message |-> message,
                post_id |-> post_id, created_time |-> created_time]]

onPostReaction(from_id, post_id, post_object, timestamp, reaction_type) ==
    [kind |-> "instance", cls |-> "onPostReaction",
     attrs |-> [from_id |-> from_id, post_id |-> post_id, post_object |-> post_object,
                timestamp |-> timestamp, reaction_type |-> reaction_type]]

onCommentReaction(from_id, comment_id, comment_object, timestamp, reaction_type) ==
    [kind |-> "instance", cls |-> "onCommentReaction",
     attrs |-> [from_id |-> from_id, comment_id |-> comment_id,
                comment_object |-> comment_object,
                timestamp |-> timestamp, reaction_type |-> reaction_type]]

\* Python's None where the other values of the field are strings.
None == "None"

onMessage(message_object) ==
    [kind |-> "instance", cls |-> "onMessage",
     attrs |-> [message_object |-> message_object]]

onMessageReaction(emoji, reaction_description, message_object) ==
    [kind |-> "instance", cls |-> "onMessageReaction",
     attrs |-> [emoji |-> emoji, reaction_description |-> reaction_description,
                message_object |-> message_object]]

\* FacebookMessage(sender, recipient, text, message_id, attachments, timestamp, ...).
FacebookMessage(sender, recipient, text, message_id, attachments, timestamp) ==
    [_sender |-> sender, _recipient |-> recipient, _text |-> text,
     _message_id |-> message_id, _attachments |-> attachments, _timestamp |-> timestamp]

\* FacebookPost(post_id, ...) / FacebookComment(comment_id, ...): constructed,
\* no request made.
FacebookPost(post_id) == [_post_id |-> post_id, _initialized |-> FALSE]
FacebookComment(comment_id, parent_post) ==
    [_comment_id |-> comment_id, _parent_post |-> parent_post._post_id,
     _initialized |-> FALSE]

-----------------------------------------------------------------------------
(* events/dispatcher.py: EventDispatcher *)

\* list.sort(key=itemgetter("priority")): a stable sort.
RECURSIVE SortByPriority(_)
InsertByPriority(sorted, e) ==
    LET k == Cardinality({i \in 1..Len(sorted) : sorted[i].priority <= e.priority})
    IN  SubSeq(sorted, 1, k) \o <<e>> \o SubSeq(sorted, k + 1, Len(sorted))
SortByPriority(s) ==
    IF s = <<>> THEN <<>>
    ELSE InsertByPriority(SortByPriority(SubSeq(s, 1, Len(s) - 1)), s[Len(s)])

\* (mutant) register without the sort: a new group goes to the end.
RegisterIntoUnsorted(event_data, priority, func) ==
    IF \E i \in 1..Len(event_data) : event_data[i].priority = priority
    THEN [i \in 1..Len(event_data) |->
            IF event_data[i].priority = priority
            THEN [event_data[i] EXCEPT !.handlers = Append(@, func)]
            ELSE event_data[i]]
    ELSE Append(event_data, [priority |-> priority, handlers |-> <<func>>])

\* The body of register's decorator on the list of one event class.
RegisterInto(event_data, priority, func) ==
    LET with_priority == \E i \in 1..Len(event_data) : event_data[i].priority = priority
        added ==
            IF event_data # <<>> /\ with_priority
            THEN [i \in 1..Len(event_data) |->
                    IF event_data[i].priority = priority
                    THEN [event_data[i] EXCEPT !.handlers = Append(@, func)]
                    ELSE event_data[i]]
            ELSE Append(event_data, [priority |-> priority, handlers |-> <<func>>])
    IN  SortByPriority(added)

\* dict.setdefault(event, [])
SetDefault(d, T) == IF T \in DOMAIN d THEN d[T] ELSE <<>>

\* (mutant) the lookup does not look at the event: it yields the list of a
\* registered class whatever is asked for.
HandlersGetAny(d, event) ==
    IF DOMAIN d # {} THEN CHOOSE k \in DOMAIN d : TRUE ELSE ""

\* dict.get(event, []) where the keys of d are classes: a key is found only by
\* the same class object; an instance of the class hashes by identity and is
\* not equal to its class.  The result is "" when the default [] is returned.
HandlersGet(d, event) ==
    IF event.kind = "class" /\ event.cls \in DOMAIN d THEN event.cls ELSE ""

\* The list invoke iterates: the registry's own list (aliased, so later
\* register calls are seen), or the fresh default [].
HandlerList(inv) == IF inv.key = "" THEN <<>> ELSE handlers[inv.key]

Register(T, priority, func) ==
    /\ regs < MaxRegs
    /\ handlers' = [k \in DOMAIN handlers \cup {T} |->
                      IF k = T THEN RegisterInto(SetDefault(handlers, T), priority, func)
                      ELSE handlers[k]]
    /\ regs' = regs + 1
    /\ UNCHANGED <<invocations, feedCalls, cache, requests, log, arrivals, verifications,
                   validations, graph, nodes,
                   messenger>>

\* A new invoke coroutine object, not yet run.
NewInvocation(event, src) ==
    [event |-> event, src |-> src, pc |-> "scheduled", key |-> "", idx |-> 0,
     round |-> 0, tasks |-> <<>>, atStart |-> <<>>]

\* One pass of `for handler in handler_list` up to the await: take the next
\* group of the live list, create one task per handler, suspend in gather;
\* or leave the loop and return.
LoopStep(inv, handler_list) ==
    IF inv.idx < Len(handler_list)
    THEN LET handler == handler_list[inv.idx + 1]
             new == [j \in 1..Len(handler.handlers) |->
                        [func |-> handler.handlers[j], priority |-> handler.priority,
                         round |-> inv.round + 1, status |-> "running",
                         arg |-> inv.event]]
         IN  [inv EXCEPT !.idx = @ + 1, !.round = @ + 1, !.pc = "gather",
                         !.tasks = @ \o new]
    ELSE [inv EXCEPT !.pc = "returned"]

\* await dispatcher.invoke(event) / create_task(dispatcher.invoke(event)) by a
\* user of the dispatcher.
Invoke(event) ==
    /\ Len(invocations) < MaxInvocations
    /\ invocations' = Append(invocations, NewInvocation(event, [call |-> 0, change |-> 0]))
    /\ UNCHANGED <<handlers, regs, feedCalls, cache, requests, log, arrivals, verifications,
                   validations, graph, nodes,
                   messenger>>

\* Where an exception that leaves the invoke coroutine is raised: in the
\* coroutine that awaits it.  handle_feed_event and handle_message_event wrap
\* the coroutine in create_task and drop the task: nothing awaits it and it
\* has no done callback, so the exception stays in the task object.
ExceptionReceiver(inv) == IF inv.src.call = 0 THEN "awaiter" ELSE None

\* invoke, from its first line to its first suspension.
InvokeRun(i) ==
    /\ invocations[i].pc = "scheduled"
    /\ LET key == HandlersGet(handlers, invocations[i].event)
           inv == [invocations[i] EXCEPT
                      !.key = key,
                      \* history: the groups registered for type(event) at this point
                      !.atStart = SetDefault(handlers, invocations[i].event.cls)]
       IN  invocations' = [invocations EXCEPT ![i] = LoopStep(inv, HandlerList(inv))]
    /\ UNCHANGED <<handlers, regs, feedCalls, cache, requests, log, arrivals, verifications,
                   validations, graph, nodes,
                   messenger>>

CurrentTasks(inv) == {t \in 1..Len(inv.tasks) : inv.tasks[t].round = inv.round}

\* A handler coroutine returns.
HandlerReturn(i, t) ==
    /\ invocations[i].tasks[t].status = "running"
    /\ invocations' = [invocations EXCEPT ![i].tasks[t].status = "done"]
    /\ UNCHANGED <<handlers, regs, feedCalls, cache, requests, log, arrivals, verifications,
                   validations, graph, nodes,
                   messenger>>

\* A handler coroutine raises.
HandlerRaise(i, t) ==
    /\ invocations[i].tasks[t].status = "running"
    /\ invocations' = [invocations EXCEPT ![i].tasks[t].status = "raised"]
    /\ UNCHANGED <<handlers, regs, feedCalls, cache, requests, log, arrivals, verifications,
                   validations, graph, nodes,
                   messenger>>

\* (mutant) the await ends as soon as one task of the group has returned, as
\* asyncio.wait(tasks, return_when=FIRST_COMPLETED) would.
GatherReturnFirstCompleted(i) ==
    /\ invocations[i].pc = "gather"
    /\ \E t \in CurrentTasks(invocations[i]) : invocations[i].tasks[t].status = "done"
    /\ invocations' = [invocations EXCEPT
                          ![i] = LoopStep(invocations[i], HandlerList(invocations[i]))]
    /\ UNCHANGED <<handlers, regs, feedCalls, cache, requests, log, arrivals, verifications,
                   validations, graph, nodes,
                   messenger>>

\* asyncio.gather(*tasks) without return_exceptions: the result is ready when
\* every task has returned ...
GatherReturn(i) ==
    /\ invocations[i].pc = "gather"
    /\ \A t \in CurrentTasks(invocations[i]) : invocations[i].tasks[t].status = "done"
    /\ invocations' = [invocations EXCEPT
                          ![i] = LoopStep(invocations[i], HandlerList(invocations[i]))]
    /\ UNCHANGED <<handlers, regs, feedCalls, cache, requests, log, arrivals, verifications,
                   validations, graph, nodes,
                   messenger>>

\* (mutant) the exception of a task is collected instead of raised, as
\* asyncio.gather(*tasks, return_exceptions=True) would, and the loop goes on.
GatherRaiseCollected(i) ==
    /\ invocations[i].pc = "gather"
    /\ \E t \in CurrentTasks(invocations[i]) : invocations[i].tasks[t].status = "raised"
    /\ invocations' = [invocations EXCEPT
                          ![i] = LoopStep(invocations[i], HandlerList(invocations[i]))]
    /\ UNCHANGED <<handlers, regs, feedCalls, cache, requests, log, arrivals, verifications,
                   validations, graph, nodes,
                   messenger>>

\* ... and the first exception of a task is raised in the awaiting coroutine
\* at once; the other tasks are not cancelled and go on running.
GatherRaise(i) ==
    /\ invocations[i].pc = "gather"
    /\ \E t \in CurrentTasks(invocations[i]) : invocations[i].tasks[t].status = "raised"
    /\ invocations' = [invocations EXCEPT ![i].pc = "raised"]
    /\ UNCHANGED <<handlers, regs, feedCalls, cache, requests, log, arrivals, verifications,
                   validations, graph, nodes,
                   messenger>>

-----------------------------------------------------------------------------
(* models/listener/page/feeds/feed.py, models/page/page.py: validated payloads *)

FEED_VERB_TYPES == {"add", "edited", "remove"}
REACTION_VERB_TYPES == {"add", "remove", "edit"}

NewPostFamily == {"FeedNewPost", "FeedNewPostWithPhoto", "FeedNewPostWithManyPhotos",
                  "FeedNewPostWithVideo"}
CommentFamily == {"FeedComment", "FeedCommentWithPhoto", "FeedCommentWithVideo"}

PostIds == {"1_2", "1_3"}
CommentIds == {"2_7"}

\* Validated FeedNewPost, FeedNewPostWithManyPhotos and FeedNewPostWithVideo
\* objects (the fields handle_feed_event reads).
FeedNewPostValues ==
    [cls : {"FeedNewPost"}, verb : FEED_VERB_TYPES,
     post_id : PostIds, message : {"m1"}, created_time : {1}, from_ : {"u1"}]
    \cup
    [cls : {"FeedNewPostWithManyPhotos", "FeedNewPostWithVideo"}, verb : FEED_VERB_TYPES,
     post_id : {"1_2"}, message : {"m1"}, created_time : {1}, from_ : {"u1"}]

\* FeedNewPostWithPhoto, with every field of the model: model_dump() is taken of it.
FeedNewPostWithPhotoObjects(froms, links, messages, post_ids, verbs) ==
    [cls : {"FeedNewPostWithPhoto"}, from_ : froms, link : links, message : messages,
     post_id : post_ids, created_time : {1}, item : {"photo"}, photo_id : {"ph1"},
     published : {1}, verb : verbs]

FeedNewPostWithPhotoValues ==
    FeedNewPostWithPhotoObjects({"u1"}, {"l1"}, {"m1"}, {"1_2"}, FEED_VERB_TYPES)

FeedCommentValues ==
    [cls : CommentFamily, verb : FEED_VERB_TYPES, post_id : {"1_2"},
     comment_id : CommentIds, is_reply : BOOLEAN, from_ : {"u1"}, created_time : {1}]

FeedNewReactionOnPostValues ==
    [cls : {"FeedNewReactionOnPost"}, verb : REACTION_VERB_TYPES, post_id : {"1_2"},
     reaction_type : {"like"}, from_ : {"u1"}, created_time : {1}]

FeedNewReactionOnCommentValues ==
    [cls : {"FeedNewReactionOnComment"}, verb : REACTION_VERB_TYPES, post_id : {"1_2"},
     comment_id : CommentIds, reaction_type : {"like"}, from_ : {"u1"},
     created_time : {1}]

FeedValues ==
    FeedNewPostValues \cup FeedNewPostWithPhotoValues \cup FeedCommentValues
    \cup FeedNewReactionOnPostValues \cup FeedNewReactionOnCommentValues

\* FacebookFeed: a change of field "feed".  BioField: a change with value None.
FacebookFeed(value) == [field |-> "feed", value |-> value]
BioField == [field |-> "bio", value |-> [cls |-> "NoneType"]]

isinstance(obj, classes) == obj.cls \in classes

-----------------------------------------------------------------------------
(* models/page/messaging/message.py: Message *)

\* message_types: the keys of the dict, in its order, and their classes.
message_types_keys ==
    <<"message", "message_edit", "optin", "reaction", "read", "postback", "referral">>
message_types(name) ==
    CASE name = "message" -> "MessageContent"
      [] name = "message_edit" -> "MessageEditContent"
      [] name = "optin" -> "MessageOptinContent"
      [] name = "reaction" -> "MessageReactionContent"
      [] name = "read" -> "MessageReadContent"
      [] name = "postback" -> "MessagingPostbackContent"
      [] name = "referral" -> "MessagingReferralContent"

\* The outcome of a validation: the validated attributes, or a ValidationError.
Accepted(attrs) == [ok |-> TRUE, attrs |-> attrs]
ValidationError == [ok |-> FALSE, attrs |-> [error |-> "ValidationError"]]

\* A raw messaging element is [keys |-> the payload keys present in the dict,
\* conforming |-> those of them whose value conforms to its class,
\* base |-> whether sender, recipient and timestamp are there and conform].
\* (mutant) only the absence of every key is refused; of several keys the
\* first one of message_types is taken.
_validate_message_type_first(data) ==
    LET current_message_type == SelectSeq(message_types_keys, LAMBDA name : name \in data.keys)
    IN  IF Len(current_message_type) = 0 THEN ValidationError
        ELSE LET field_name == current_message_type[1]
             IN  IF field_name \notin data.conforming THEN ValidationError
                 ELSE Accepted([message_type |-> message_types(field_name),
                                base |-> data.base])

\* Message._validate_message_type (mode="before"): the data handed on to the
\* validation of the fields, or the error raised.
_validate_message_type(data) ==
    LET current_message_type == SelectSeq(message_types_keys, LAMBDA name : name \in data.keys)
    IN  IF Len(current_message_type) # 1 THEN ValidationError
        ELSE LET field_name == current_message_type[1]
             IN  IF field_name \notin data.conforming THEN ValidationError
                 ELSE Accepted([message_type |-> message_types(field_name),
                                base |-> data.base])

\* Message.model_validate(data): the before-validator, then the fields.
MessageModelValidate(data) ==
    LET before == _validate_message_type(data)
    IN  IF ~before.ok THEN ValidationError
        ELSE IF ~before.attrs.base THEN ValidationError
        ELSE Accepted([message_type |-> before.attrs.message_type])

\* One payload is validated in a behaviour: validations do not depend on each
\* other.
ValidateMessage(data) ==
    /\ validations = <<>>
    /\ validations' = <<[model |-> "Message", data |-> data,
                         result |-> MessageModelValidate(data)]>>
    /\ UNCHANGED <<handlers, regs, invocations, feedCalls, cache, requests, log, arrivals,
                   verifications, graph, nodes,
                   messenger>>

-----------------------------------------------------------------------------
(* models/listener/page/feeds/feed.py: validation of the Comment family *)

\* A str is the sequence of its characters.  s.split("_"): the segments between
\* the underscores, at least one.
RECURSIVE Split(_)
Split(s) ==
    IF \A i \in 1..Len(s) : s[i] # "_" THEN <<s>>
    ELSE LET i == CHOOSE k \in 1..Len(s) : s[k] = "_" /\ \A j \in 1..(k - 1) : s[j] # "_"
         IN  <<SubSeq(s, 1, i - 1)>> \o Split(SubSeq(s, i + 1, Len(s)))

\* An exception that is no ValueError: pydantic lets it through as it is.
IndexError == [ok |-> FALSE, attrs |-> [error |-> "IndexError"]]

\* (mutant) the post's own id is taken from the first segment of post_id.
_check_if_top_level_comment_first(self) ==
    LET unique_post_id == Split(self.post_id)[1]
        is_parent_id_comment == Split(self.parent_id)[1] = unique_post_id
    IN  Accepted([self EXCEPT !.is_reply = is_parent_id_comment])

\* FeedComment._check_if_top_level_comment (mode="after"), the same in
\* FeedCommentWithPhoto and FeedCommentWithVideo.
_check_if_top_level_comment(self) ==
    IF Len(Split(self.post_id)) < 2 THEN IndexError
    ELSE LET unique_post_id == Split(self.post_id)[2]
             is_parent_id_comment == Split(self.parent_id)[1] = unique_post_id
         IN  Accepted([self EXCEPT !.is_reply = is_parent_id_comment])

\* A raw comment value is [item, message (a str or None), keys (which of photo
\* and video it carries), post_id, parent_id, verb].  The fields of a class
\* validate, extra keys being ignored; then the after-validator runs.
FieldsValidate(cls, data) ==
    /\ data.item = "comment"
    /\ data.verb \in FEED_VERB_TYPES
    /\ cls = "FeedComment" => data.message # None
    /\ cls = "FeedCommentWithPhoto" => "photo" \in data.keys
    /\ cls = "FeedCommentWithVideo" => "video" \in data.keys

CommentModelValidate(cls, data) ==
    IF ~FieldsValidate(cls, data) THEN ValidationError
    ELSE _check_if_top_level_comment(
             [cls |-> cls, message |-> data.message, post_id |-> data.post_id,
              parent_id |-> data.parent_id, verb |-> data.verb, is_reply |-> FALSE])

ValidateComment(cls, data) ==
    /\ validations = <<>>
    /\ validations' = <<[model |-> cls, data |-> data,
                         result |-> CommentModelValidate(cls, data)]>>
    /\ UNCHANGED <<handlers, regs, invocations, feedCalls, cache, requests, log, arrivals,
                   verifications, graph, nodes,
                   messenger>>

\* FacebookFeed.value: the members of the union, in its order.
FeedUnionMembers ==
    <<"FeedNewReactionOnPost", "FeedNewReactionOnComment", "FeedNewPost",
      "FeedNewPostWithPhoto", "FeedNewPostWithManyPhotos", "FeedNewPostWithVideo",
      "FeedComment", "FeedCommentWithPhoto", "FeedCommentWithVideo">>

\* One member tried on a raw value with item comment: the members outside the
\* Comment family require another item.
MemberValidate(cls, data) ==
    IF cls \in CommentFamily THEN CommentModelValidate(cls, data) ELSE ValidationError

\* How many fields of the class the raw comment value sets: the nine of
\* FeedComment, and photo or video.
FieldsSetCount(cls) == IF cls = "FeedComment" THEN 9 ELSE 10

\* How pydantic resolves a union without discriminator.  The library is not
\* pinned: it takes the first member that validates ("left_to_right", and
\* smart mode before 2.8 on members of equal exactness) or the member that
\* validates with the most fields set, the first of them on a tie (smart mode
\* since 2.8).  An exception that is no ValueError ends the validation.
UnionModes == {"left_to_right", "most_fields_set"}

RECURSIVE UnionValidate(_, _, _, _)
UnionValidate(k, data, mode, best) ==
    IF k > Len(FeedUnionMembers)
    THEN IF best = <<>> THEN ValidationError ELSE best[1].result
    ELSE LET cls == FeedUnionMembers[k]
             result == MemberValidate(cls, data)
         IN  IF ~result.ok /\ result.attrs.error = "IndexError" THEN IndexError
             ELSE IF ~result.ok THEN UnionValidate(k + 1, data, mode, best)
             ELSE IF mode = "left_to_right" THEN result
             ELSE IF best = <<>> \/ FieldsSetCount(cls) > best[1].count
             THEN UnionValidate(k + 1, data, mode,
                                <<[result |-> result, count |-> FieldsSetCount(cls)]>>)
             ELSE UnionValidate(k + 1, data, mode, best)

ValidateFeedValue(data, mode) ==
    /\ validations = <<>>
    /\ validations' = <<[model |-> "FacebookFeed.value", data |-> data, mode |-> mode,
                         result |-> UnionValidate(1, data, mode, <<>>)]>>
    /\ UNCHANGED <<handlers, regs, invocations, feedCalls, cache, requests, log, arrivals,
                   verifications, graph, nodes,
                   messenger>>

-----------------------------------------------------------------------------
(* events/handler.py: handle_feed_event *)

\* (mutant) the reaction branches do not test the verb, as the new-post branch
\* does not: every reaction change is announced.
FeedEventsOfAnyVerb(change) ==
    LET feed_object == change.value
        new_post ==
            IF isinstance(feed_object, NewPostFamily)
            THEN LET with_attachment ==
                         isinstance(feed_object, {"FeedNewPostWithPhoto",
                                                  "FeedNewPostWithManyPhotos",
                                                  "FeedNewPostWithVideo"})
                 IN  <<onNewPost(FacebookPost(feed_object.post_id), feed_object.message,
                                 feed_object.post_id, with_attachment,
                                 feed_object.created_time)>>
            ELSE <<>>
        post_reaction ==
            IF isinstance(feed_object, {"FeedNewReactionOnPost"})
            THEN <<onPostReaction(feed_object.from_, feed_object.post_id,
                                  FacebookPost(feed_object.post_id),
                                  feed_object.created_time, feed_object.reaction_type)>>
            ELSE <<>>
        comment_reaction ==
            IF isinstance(feed_object, {"FeedNewReactionOnComment"})
            THEN <<onCommentReaction(feed_object.from_, feed_object.comment_id,
                                     FacebookComment(feed_object.comment_id,
                                                     FacebookPost(feed_object.post_id)),
                                     feed_object.created_time, feed_object.reaction_type)>>
            ELSE <<>>
    IN  new_post \o post_reaction \o comment_reaction

\* The events one pass of the loop body creates and hands to invoke, for one
\* change, in order.
FeedEventsOf(change) ==
    LET feed_object == change.value
        new_post ==
            IF isinstance(feed_object, NewPostFamily)
            THEN LET with_attachment ==
                         isinstance(feed_object, {"FeedNewPostWithPhoto",
                                                  "FeedNewPostWithManyPhotos",
                                                  "FeedNewPostWithVideo"})
                 IN  <<onNewPost(FacebookPost(feed_object.post_id), feed_object.message,
                                 feed_object.post_id, with_attachment,
                                 feed_object.created_time)>>
            ELSE <<>>
        post_reaction ==
            IF isinstance(feed_object, {"FeedNewReactionOnPost"}) /\ feed_object.verb = "add"
            THEN <<onPostReaction(feed_object.from_, feed_object.post_id,
                                  FacebookPost(feed_object.post_id),
                                  feed_object.created_time, feed_object.reaction_type)>>
            ELSE <<>>
        \* on comment event: post_object, comment_object and with_attachment are
        \* computed and dropped; no event object is built and invoke is not called.
        comment == <<>>
        comment_reaction ==
            IF isinstance(feed_object, {"FeedNewReactionOnComment"}) /\ feed_object.verb = "add"
            THEN <<onCommentReaction(feed_object.from_, feed_object.comment_id,
                                     FacebookComment(feed_object.comment_id,
                                                     FacebookPost(feed_object.post_id)),
                                     feed_object.created_time, feed_object.reaction_type)>>
            ELSE <<>>
    IN  new_post \o post_reaction \o comment \o comment_reaction

\* The invoke coroutines handle_feed_event schedules with create_task, over
\* the changes c.. of the entry, in order.
RECURSIVE FeedTasks(_, _, _)
FeedTasks(changes, c, call) ==
    IF c > Len(changes) THEN <<>>
    ELSE LET events == FeedEventsOf(changes[c])
         IN  [k \in 1..Len(events) |->
                 NewInvocation(events[k], [call |-> call, change |-> c])]
             \o FeedTasks(changes, c + 1, call)

\* (mutant) the changes are taken from the last entry when it is a PageEntry.
handle_feed_event_last_entry(webhook_page_object) ==
    /\ Len(feedCalls) < MaxFeedCalls
    /\ LET entry == webhook_page_object.entry
           page_entry == IF entry[Len(entry)].kind = "PageEntry"
                         THEN entry[Len(entry)] ELSE entry[1]
       IN  invocations' = invocations \o FeedTasks(page_entry.changes, 1, Len(feedCalls) + 1)
    /\ feedCalls' = Append(feedCalls, webhook_page_object)
    /\ UNCHANGED <<handlers, regs, cache, requests, log, arrivals, verifications,
                   validations, graph, nodes,
                   messenger>>

handle_feed_event(webhook_page_object) ==
    /\ Len(feedCalls) < MaxFeedCalls
    /\ LET page_entry == webhook_page_object.entry[1]
       IN  invocations' = invocations \o FeedTasks(page_entry.changes, 1, Len(feedCalls) + 1)
    /\ feedCalls' = Append(feedCalls, webhook_page_object)
    /\ UNCHANGED <<handlers, regs, cache, requests, log, arrivals, verifications,
                   validations, graph, nodes,
                   messenger>>

-----------------------------------------------------------------------------
(* events/handler.py: handle_message_event *)

\* The payload kinds of a messaging element: the classes of Message.message_type.
MessageTypes ==
    {"MessageContent", "MessageEditContent", "MessageOptinContent",
     "MessageReactionContent", "MessageReadContent", "MessagingPostbackContent",
     "MessagingReferralContent"}

\* Validated message_type objects.  An optional list is <<>> for None and
\* <<list>> otherwise.
MessageContentValues ==
    {[cls |-> "MessageContent", mid |-> "mid1", text |-> "hi",
      attachments |-> <<>>, is_echo |-> FALSE],
     [cls |-> "MessageContent", mid |-> "mid1", text |-> None,
      attachments |-> << <<"image">> >>, is_echo |-> FALSE],
     [cls |-> "MessageContent", mid |-> "mid1", text |-> "hi",
      attachments |-> <<>>, is_echo |-> TRUE]}
MessageReactionContentValues ==
    {[cls |-> "MessageReactionContent", mid |-> "mid1", action |-> "react",
      emoji |-> "e1", reaction |-> "love"],
     [cls |-> "MessageReactionContent", mid |-> "mid1", action |-> "unreact",
      emoji |-> None, reaction |-> None]}
OtherContentValues ==
    {[cls |-> T, mid |-> "mid1"] :
        T \in MessageTypes \ {"MessageContent", "MessageReactionContent"}}
MessageTypeValues ==
    MessageContentValues \cup MessageReactionContentValues \cup OtherContentValues

\* Message: one element of MessageEntry.messages.
Message(message_type) ==
    [sender |-> "s1", recipient |-> "r1", timestamp |-> 1, message_type |-> message_type]

\* message_type.attachments or []
OrEmptyList(attachments) ==
    IF attachments = <<>> \/ attachments[1] = <<>> THEN <<>> ELSE attachments[1]

\* (mutant) a payload is taken for a message when it has a mid and is no
\* reaction, so that an edit, whose fields are mid and text, is announced too.
MessageEventsOfAnyMid(message) ==
    LET message_type == message.message_type
    IN  IF isinstance(message_type, {"MessageReactionContent"})
        THEN <<onMessageReaction(message_type.emoji, message_type.reaction,
                                 FacebookMessage(message.sender, message.recipient, None,
                                                 message_type.mid, <<>>,
                                                 message.timestamp))>>
        ELSE IF isinstance(message_type, {"MessageContent", "MessageEditContent"})
        THEN <<onMessage(FacebookMessage(message.sender, message.recipient, "hi",
                                         message_type.mid, <<>>, message.timestamp))>>
        ELSE <<>>

\* The events one pass of the loop body creates and hands to invoke, for one
\* messaging element, in order.
MessageEventsOf(message) ==
    LET message_type == message.message_type
        on_message ==
            IF isinstance(message_type, {"MessageContent"})
            THEN <<onMessage(FacebookMessage(message.sender, message.recipient,
                                             message_type.text, message_type.mid,
                                             OrEmptyList(message_type.attachments),
                                             message.timestamp))>>
            ELSE <<>>
        on_message_react ==
            IF isinstance(message_type, {"MessageReactionContent"})
            THEN <<onMessageReaction(message_type.emoji, message_type.reaction,
                                     FacebookMessage(message.sender, message.recipient,
                                                     None, message_type.mid, <<>>,
                                                     message.timestamp))>>
            ELSE <<>>
    IN  on_message \o on_message_react

\* The invoke coroutines handle_message_event schedules with create_task, over
\* the elements m.. of the entry, in order.
RECURSIVE MessageTasks(_, _, _)
MessageTasks(messages, m, call) ==
    IF m > Len(messages) THEN <<>>
    ELSE LET events == MessageEventsOf(messages[m])
         IN  [k \in 1..Len(events) |->
                 NewInvocation(events[k], [call |-> call, change |-> m])]
             \o MessageTasks(messages, m + 1, call)

handle_message_event(webhook_page_object) ==
    /\ Len(feedCalls) < MaxFeedCalls
    /\ LET message_entry == webhook_page_object.entry[1]
       IN  invocations' =
               invocations \o MessageTasks(message_entry.messages, 1, Len(feedCalls) + 1)
    /\ feedCalls' = Append(feedCalls, webhook_page_object)
    /\ UNCHANGED <<handlers, regs, cache, requests, log, arrivals, verifications,
                   validations, graph, nodes,
                   messenger>>

-----------------------------------------------------------------------------
(* listener.py: Listener *)

verify_token == "secret"

\* GET /webhook: verify_webhook.  The response, as [status, body].
VerifyResponse(mode, token, challenge) ==
    IF mode # "subscribe" /\ token # verify_token
    THEN [status |-> 403, body |-> "Forbidden"]
    ELSE [status |-> 200, body |-> challenge]

verify_webhook(mode, token, challenge) ==
    /\ Len(verifications) < MaxVerifications
    /\ verifications' = Append(verifications,
                               [mode |-> mode, token |-> token, challenge |-> challenge,
                                response |-> VerifyResponse(mode, token, challenge)])
    /\ UNCHANGED <<handlers, regs, invocations, feedCalls, cache, requests, log, arrivals,
                   validations, graph, nodes,
                   messenger>>

\* feed_model.model_dump(): the fields of FeedNewPostWithPhoto, in the order
\* the model declares them.
PhotoFields == <<"from_", "link", "message", "post_id", "created_time", "item",
                 "photo_id", "published", "verb">>

\* del data[name]
Del(fields, name) ==
    LET keep == {i \in 1..Len(fields) : fields[i] # name}
        RECURSIVE Pick(_)
        Pick(i) == IF i > Len(fields) THEN <<>>
                   ELSE (IF i \in keep THEN <<fields[i]>> ELSE <<>>) \o Pick(i + 1)
    IN  Pick(1)

\* json.dumps(data): the items in the dict's order, strings quoted and
\* integers bare (ToString writes both as JSON does).
JsonDumps(obj, fields) ==
    [i \in 1..Len(fields) |-> <<fields[i], ToString(obj[fields[i]])>>]

\* (mutant) only "from_" is deleted from the dump.
DedupKeyWithLink(feed_model) ==
    JsonDumps(feed_model, Del(PhotoFields, "from_"))

\* blake2b(data.encode(), digest_size=16).hexdigest() of the dump without
\* "link" and "from_".  The digest is taken to be free of collisions: it is
\* the text it is computed from.
DedupKey(feed_model) ==
    JsonDumps(feed_model, Del(Del(PhotoFields, "link"), "from_"))

\* The guard of the dedup block: object is "page", entry[0] is a PageEntry,
\* and its first change's value is a FeedNewPostWithPhoto with verb "edited".
\* (changes[0].value of a change that has no verb is not a FeedNewPostWithPhoto.)
Deduplicated(page_object) ==
    /\ page_object.object = "page"
    /\ page_object.entry[1].kind = "PageEntry"
    /\ LET feed_model == page_object.entry[1].changes[1].value
       IN  /\ isinstance(feed_model, {"FeedNewPostWithPhoto"})
           /\ feed_model.verb = "edited"

KeyOf(page_object) ==
    IF Deduplicated(page_object)
    THEN DedupKey(page_object.entry[1].changes[1].value)
    ELSE <<>>

\* FIFOCache.get(key): the stored value (True) or None; the order of the keys
\* is not touched by a lookup.
CacheGet(c, key) == \E i \in 1..Len(c) : c[i] = key

\* (mutant) a lookup that finds the key makes it the newest key.
CacheAfterGetRenewed(c, key) ==
    IF CacheGet(c, key) THEN SelectSeq(c, LAMBDA k : k # key) \o <<key>> ELSE c

CacheAfterGet(c, key) == c

\* (mutant) popitem() of a cache that evicts the key inserted last.
PopItemNewest(c) == SubSeq(c, 1, Len(c) - 1)

\* FIFOCache.popitem(): the key inserted first.
PopItem(c) == Tail(c)

\* (mutant) the key is not stored.
CacheSetItemDropped(c, key) == c

\* (mutant) the key is stored without making room for it.
CacheSetItemUnbounded(c, key) ==
    IF CacheGet(c, key) THEN c ELSE Append(c, key)

\* FIFOCache.__setitem__(key, True): room is made by popitem() while the cache
\* is full, then the key is stored last.
CacheSetItem(c, key) ==
    IF CacheGet(c, key)
    THEN SelectSeq(c, LAMBDA k : k # key) \o <<key>>
    ELSE IF Len(c) >= maxsize THEN Append(PopItem(c), key) ELSE Append(c, key)

\* POST /webhook: the body has been validated into a Page and the endpoint is
\* about to be called.  The request takes the first free slot; a run holds two
\* requests more than the cache holds keys.
PostWebhook(w, page_object) ==
    /\ requests[w].pc = "idle"
    /\ \A v \in 1..(w - 1) : requests[v].pc # "idle"
    /\ arrivals < maxsize + 2
    /\ arrivals' = arrivals + 1
    /\ requests' = [requests EXCEPT ![w] = [pc |-> "handle_webhook_events",
                                            page_object |-> page_object, n |-> 0]]
    /\ UNCHANGED <<handlers, regs, invocations, feedCalls, cache, log, verifications,
                   validations, graph, nodes,
                   messenger>>

\* handle_webhook_events up to `await self._handle_page_events(page_object)`:
\* no suspension point lies between the lookup and the insertion.
handle_webhook_events(w) ==
    /\ requests[w].pc = "handle_webhook_events"
    /\ LET page_object == requests[w].page_object
           key == KeyOf(page_object)
           looked == Deduplicated(page_object)
           hit == looked /\ CacheGet(cache, key)
           afterGet == IF looked THEN CacheAfterGet(cache, key) ELSE cache
           after == IF looked /\ ~hit THEN CacheSetItem(afterGet, key) ELSE afterGet
           gone == Range(cache) \ Range(after)
       IN  /\ cache' = after
           /\ log' = Append(log, [page_object |-> page_object, key |-> key,
                                  suppressed |-> hit, evicted |-> gone,
                                  handlers |-> handlers,
                                  handled |-> FALSE, status |-> IF hit THEN 200 ELSE 0])
           /\ requests' = [requests EXCEPT
                              ![w] = IF hit THEN [pc |-> "idle"]
                                     ELSE [@ EXCEPT !.pc = "_handle_page_events",
                                                    !.n = Len(log) + 1]]
    /\ UNCHANGED <<handlers, regs, invocations, feedCalls, arrivals, verifications,
                   validations, graph, nodes,
                   messenger>>

\* Listener._handle_page_events: prints page_object.object and
\* page_object.entry; then the endpoint returns None and the response is 200.
\* Nothing is handed to handle_feed_event, handle_message_event or invoke.
_handle_page_events(w) ==
    /\ requests[w].pc = "_handle_page_events"
    /\ log' = [log EXCEPT ![requests[w].n].handled = TRUE, ![requests[w].n].status = 200]
    /\ requests' = [requests EXCEPT ![w] = [pc |-> "idle"]]
    /\ UNCHANGED <<handlers, regs, invocations, feedCalls, cache, arrivals, verifications,
                   validations, graph, nodes,
                   messenger>>

-----------------------------------------------------------------------------
(* models/page/post.py: FacebookPost; models/page/comment.py: FacebookComment *)

\* The objects the comment branch of handle_feed_event builds, with the
\* bookkeeping of the calls made on them.  pc is the method that awaits its
\* answer; last_call and last are the method that ended last and how; since
\* tells whether an initialization has succeeded after the construction and
\* after the last refresh began; calls counts the calls made.
NodeOf(cls, obj) ==
    [cls |-> cls, obj |-> obj, pc |-> "idle", last_call |-> "none", last |-> "none",
     since |-> FALSE, calls |-> 0]

NodesOfEvent ==
    [post_object |-> NodeOf("FacebookPost", FacebookPost("1_2")),
     comment_object |-> NodeOf("FacebookComment",
                               FacebookComment("2_7", FacebookPost("1_2")))]

\* The properties that return a constructor argument without a check, and
\* those that call _check_initialized / _is_initialized first.
IdProperties(cls) ==
    IF cls = "FacebookPost" THEN {"post_id"}
    ELSE {"comment_id", "parent_comment", "is_initialized"}

DataProperties(cls) ==
    IF cls = "FacebookPost"
    THEN {"message", "status_type", "story", "attachments", "created_time",
          "reaction_count", "is_page_reacted", "page_reaction", "comments",
          "can_comment", "total_comments_count", "total_available_comments_count",
          "are_comments_available", "next_comments_available",
          "next_available_comments_count", "shares_count"}
    ELSE {"parent_post", "message", "reaction_count", "is_page_reacted",
          "page_reaction", "replies", "author", "attachment", "created_time",
          "are_replies_available", "next_replies_available", "total_reply_count",
          "total_available_reply_count", "next_available_reply_count"}

\* FacebookPost._check_initialized, FacebookComment._is_initialized
_check_initialized(self) == IF ~self._initialized THEN "Exception" ELSE None

\* Reading property name of the object: the exception raised, or "value".
ReadProperty(node, name) ==
    IF name \in DataProperties(node.cls) /\ _check_initialized(node.obj) # None
    THEN "Exception"
    ELSE "value"

\* How a request, or the processing of its answer, ends.
Outcomes == {"ok", "failed"}

\* initialize_properties up to its await.  The comment's returns at once, with
\* a warning, when the object is initialized; the post's has no such test.
initialize_properties(n) ==
    /\ nodes[n].pc = "idle"
    /\ nodes[n].calls < MaxNodeCalls
    /\ nodes' = [nodes EXCEPT
                    ![n] = IF @.cls = "FacebookComment" /\ @.obj._initialized
                           THEN [@ EXCEPT !.last_call = "initialize_properties",
                                          !.last = "ok", !.calls = @ + 1]
                           ELSE [@ EXCEPT !.pc = "initialize_properties",
                                          !.calls = @ + 1]]
    /\ UNCHANGED <<handlers, regs, invocations, feedCalls, cache, requests, log, arrivals,
                   verifications, validations, graph,
                   messenger>>

\* (mutant) refresh does not reset the object before it asks again.
refresh_keeping(n) ==
    /\ nodes[n].pc = "idle"
    /\ nodes[n].calls < MaxNodeCalls
    /\ nodes' = [nodes EXCEPT ![n].pc = "refresh", ![n].since = FALSE,
                              ![n].calls = @ + 1]
    /\ UNCHANGED <<handlers, regs, invocations, feedCalls, cache, requests, log, arrivals,
                   verifications, validations, graph,
                   messenger>>

\* refresh up to the await of the initialize_properties it calls.
refresh(n) ==
    /\ nodes[n].pc = "idle"
    /\ nodes[n].calls < MaxNodeCalls
    /\ nodes' = [nodes EXCEPT ![n].obj._initialized = FALSE, ![n].pc = "refresh",
                              ![n].since = FALSE, ![n].calls = @ + 1]
    /\ UNCHANGED <<handlers, regs, invocations, feedCalls, cache, requests, log, arrivals,
                   verifications, validations, graph,
                   messenger>>

\* The rest of initialize_properties: raise_for_status or the processing of
\* the answer raises and _initialized stays as it is, or the last statement
\* sets _initialized.
NodeResponse(n, outcome) ==
    /\ nodes[n].pc # "idle"
    /\ nodes' = [nodes EXCEPT
                    ![n] = IF outcome = "ok"
                           THEN [@ EXCEPT !.obj._initialized = TRUE, !.since = TRUE,
                                          !.last_call = nodes[n].pc, !.last = "ok",
                                          !.pc = "idle"]
                           ELSE [@ EXCEPT !.last_call = nodes[n].pc, !.last = "failed",
                                          !.pc = "idle"]]
    /\ UNCHANGED <<handlers, regs, invocations, feedCalls, cache, requests, log, arrivals,
                   verifications, validations, graph,
                   messenger>>

\* FacebookComment.put_initialized_properties: _parse_response_object on a
\* validated answer fetched elsewhere, without a request of its own; its last
\* statement sets _initialized.
put_initialized_properties(n) ==
    /\ nodes[n].cls = "FacebookComment"
    /\ nodes[n].pc = "idle"
    /\ nodes[n].calls < MaxNodeCalls
    /\ nodes' = [nodes EXCEPT
                    ![n] = [@ EXCEPT !.obj._initialized = TRUE, !.since = TRUE,
                                     !.last_call = "put_initialized_properties",
                                     !.last = "ok", !.calls = @ + 1]]
    /\ UNCHANGED <<handlers, regs, invocations, feedCalls, cache, requests, log, arrivals,
                   verifications, validations, graph,
                   messenger>>

-----------------------------------------------------------------------------
(* models/page/message.py: FacebookMessage._manage_attachment and            *)
(* _upload_messenger_attachment under cachetools_async.cached                *)

\* The FacebookMessage objects that send, and the local files they send.
MessageObjects == {"message1", "message2"}
LocalFiles == {"a.png", "b.pdf"}

\* get_attachment_mimetype of an existing local file: mimetypes.guess_type
\* by the extension, as (type, mimetype).
get_attachment_mimetype(attachment) ==
    IF attachment = "a.png" THEN <<"image", "image/png">>
    ELSE <<"application", "application/pdf">>

\* f"{attachment}-{attachment_type}": self and mimetype are not part of it.
_upload_messenger_attachment_key(attachment, attachment_type) ==
    <<attachment, "-", attachment_type>>

\* The key _manage_attachment's call of the cached upload gets: the type of a
\* file that is no image, video or audio is "file".
UploadKeyOf(attachment) ==
    LET mimetype_value == get_attachment_mimetype(attachment)
        attachment_type == IF mimetype_value[1] \notin {"image", "video", "audio"}
                           THEN "file" ELSE mimetype_value[1]
    IN  _upload_messenger_attachment_key(attachment, attachment_type)

\* (mutant) a cache that is asked only for finished results, as a cache filled
\* after the coroutine has returned would be.
CacheHasDone(m, key) ==
    /\ key \in DOMAIN m.cache
    /\ m.uploads[m.cache[key]].state = "done"

\* cached: `future = cache[k]` finds the future of the first call, pending or
\* done.
CacheHas(m, key) == key \in DOMAIN m.cache

\* What the library does with the future of a call that raised: it stays in
\* the cache or it is taken out.  The library version is not pinned.
FailurePolicies == {"kept", "dropped"}

Without(c, key) == [k \in DOMAIN c \ {key} |-> c[k]]

\* _manage_attachment for a str that is a local file, up to the await of the
\* cached _upload_messenger_attachment: on a miss the wrapper stores a future
\* under the key and starts the upload, on a hit it awaits the stored future.
\* life[key] numbers the lives of the key's cache entries: it goes up when an
\* entry of the key leaves the cache.
send_attachments(message, attachment) ==
    /\ Len(messenger.sends) < MaxSends
    /\ LET key == UploadKeyOf(attachment)
           hit == CacheHas(messenger, key)
           u == IF hit THEN messenger.cache[key] ELSE Len(messenger.uploads) + 1
           send == [message |-> message, key |-> key, life |-> messenger.life[key],
                    future |-> u, hit |-> hit,
                    joined |-> hit /\ messenger.uploads[u].state = "pending",
                    pc |-> "awaiting", attachment_id |-> 0]
       IN  messenger' =
               IF hit
               THEN [messenger EXCEPT !.sends = Append(@, send)]
               ELSE [messenger EXCEPT
                        !.sends = Append(@, send),
                        !.cache = [k \in DOMAIN @ \cup {key} |->
                                      IF k = key THEN u ELSE @[k]],
                        !.uploads = Append(@, [key |-> key, life |-> messenger.life[key],
                                               by |-> message, state |-> "pending",
                                               attachment_id |-> 0])]
    /\ UNCHANGED <<handlers, regs, invocations, feedCalls, cache, requests, log, arrivals,
                   verifications, validations, graph, nodes>>

\* The answer to POST message_attachments: the upload returns the attachment
\* id (a new one per upload) or raises, and the future takes the outcome.
UploadResponse(u, outcome, policy) ==
    /\ messenger.uploads[u].state = "pending"
    /\ LET key == messenger.uploads[u].key
           drop == /\ outcome = "failed"
                   /\ policy = "dropped"
                   /\ key \in DOMAIN messenger.cache
                   /\ messenger.cache[key] = u
       IN  messenger' =
               [messenger EXCEPT
                   !.uploads[u].state = IF outcome = "ok" THEN "done" ELSE "failed",
                   !.uploads[u].attachment_id = IF outcome = "ok" THEN u ELSE 0,
                   !.cache = IF drop THEN Without(@, key) ELSE @,
                   !.life[key] = IF drop THEN @ + 1 ELSE @]
    /\ UNCHANGED <<handlers, regs, invocations, feedCalls, cache, requests, log, arrivals,
                   verifications, validations, graph, nodes>>

\* The await of the future ends in the send: with the attachment id, or with
\* the exception of the upload.
SendResume(s) ==
    /\ messenger.sends[s].pc = "awaiting"
    /\ messenger.uploads[messenger.sends[s].future].state # "pending"
    /\ LET upload == messenger.uploads[messenger.sends[s].future]
       IN  messenger' =
               [messenger EXCEPT
                   !.sends[s].pc = IF upload.state = "done" THEN "returned" ELSE "raised",
                   !.sends[s].attachment_id = upload.attachment_id]
    /\ UNCHANGED <<handlers, regs, invocations, feedCalls, cache, requests, log, arrivals,
                   verifications, validations, graph, nodes>>

\* The TTLCache lets an entry go: its ttl has passed, or it was the oldest
\* when a key was added to the full cache.
CacheExpire(key) ==
    /\ key \in DOMAIN messenger.cache
    /\ messenger.life[key] < MaxLives
    /\ messenger' = [messenger EXCEPT !.cache = Without(@, key), !.life[key] = @ + 1]
    /\ UNCHANGED <<handlers, regs, invocations, feedCalls, cache, requests, log, arrivals,
                   verifications, validations, graph, nodes>>

-----------------------------------------------------------------------------
(* api.py: GraphSession; user.py: User (the same login, on self.user_id) *)

\* The answers of the Graph API to GET me?access_token=...
StatusCodes == {200, 400, 500}

\* login_with_access_token up to its await, or to its end when the validation
\* is skipped.  status_code 0: no request was made.
login_with_access_token(user_access_token, skip_validation) ==
    /\ Len(graph.calls) < MaxLogins
    /\ graph' = IF skip_validation
                THEN [access_token |-> user_access_token,
                      calls |-> Append(graph.calls,
                                       [user_access_token |-> user_access_token,
                                        skip_validation |-> TRUE, pc |-> "returned",
                                        status_code |-> 0])]
                ELSE [graph EXCEPT
                         !.calls = Append(@, [user_access_token |-> user_access_token,
                                              skip_validation |-> FALSE, pc |-> "awaiting",
                                              status_code |-> 0])]
    /\ UNCHANGED <<handlers, regs, invocations, feedCalls, cache, requests, log, arrivals,
                   verifications, validations, nodes,
                   messenger>>

\* (mutant) the token is stored before the status of the answer is looked at.
LoginResponseStoredFirst(c, status_code) ==
    /\ graph.calls[c].pc = "awaiting"
    /\ graph' = [access_token |-> graph.calls[c].user_access_token,
                 calls |-> [graph.calls EXCEPT
                               ![c].status_code = status_code,
                               ![c].pc = IF status_code # 200 THEN "LoginError"
                                         ELSE "returned"]]
    /\ UNCHANGED <<handlers, regs, invocations, feedCalls, cache, requests, log, arrivals,
                   verifications, validations, nodes,
                   messenger>>

\* The answer arrives: login_with_access_token from its await to its end.
LoginResponse(c, status_code) ==
    /\ graph.calls[c].pc = "awaiting"
    /\ graph' = IF status_code # 200
                THEN [graph EXCEPT !.calls[c].status_code = status_code,
                                   !.calls[c].pc = "LoginError"]
                ELSE [access_token |-> graph.calls[c].user_access_token,
                      calls |-> [graph.calls EXCEPT ![c].status_code = status_code,
                                                    ![c].pc = "returned"]]
    /\ UNCHANGED <<handlers, regs, invocations, feedCalls, cache, requests, log, arrivals,
                   verifications, validations, nodes,
                   messenger>>

-----------------------------------------------------------------------------

Init ==
    /\ handlers = [k \in {} |-> <<>>]
    /\ regs = 0
    /\ invocations = <<>>
    /\ feedCalls = <<>>
    /\ cache = <<>>
    /\ requests = [w \in 1..MaxWorkers |-> [pc |-> "idle"]]
    /\ log = <<>>
    /\ arrivals = 0
    /\ verifications = <<>>
    /\ validations = <<>>
    /\ graph = [access_token |-> None, calls |-> <<>>]
    /\ nodes = NodesOfEvent
    /\ messenger = [cache |-> <<>>, uploads |-> <<>>, sends |-> <<>>,
                    life |-> [k \in {UploadKeyOf(f) : f \in LocalFiles} |-> 1]]

\* The event type handlers are registered for.
RegTypes == {"onNewPost"}

\* What a user passes to invoke: a class (as the signature is annotated), with
\* or without handlers registered for it, or an event object (as
\* handle_feed_event and handle_message_event pass).
InvokeArgs ==
    {ClassObject(T) : T \in RegTypes \cup {"onComment"}}
    \cup {onNewPost(FacebookPost("1_2"), "m1", "1_2", FALSE, 1)}

\* The user of the dispatcher registers at any time, also while an invoke is
\* suspended, and awaits one invoke before calling the next.
NextDispatch ==
    \/ \E T \in RegTypes, p \in Priorities, f \in HandlerFuncs : Register(T, p, f)
    \/ /\ \A i \in 1..Len(invocations) : invocations[i].pc \in {"returned", "raised"}
       /\ \E e \in InvokeArgs : Invoke(e)
    \/ \E i \in 1..Len(invocations) : InvokeRun(i)
    \/ \E i \in 1..Len(invocations) :
           \E t \in 1..Len(invocations[i].tasks) : HandlerReturn(i, t)
    \/ \E i \in 1..Len(invocations) :
           \E t \in 1..Len(invocations[i].tasks) : HandlerRaise(i, t)
    \/ \E i \in 1..Len(invocations) : GatherReturn(i)
    \/ \E i \in 1..Len(invocations) : GatherRaise(i)

SpecDispatch == Init /\ [][NextDispatch]_vars

\* The changes of one entry, and the envelopes handle_feed_event is called with:
\* entry[0] is a PageEntry (its caller has checked it); later entries are any.
Changes == {FacebookFeed(v) : v \in FeedValues} \cup {BioField}
RECURSIVE SeqsUpTo(_, _)
SeqsUpTo(S, n) ==
    IF n = 0 THEN {<<>>}
    ELSE LET shorter == SeqsUpTo(S, n - 1)
         IN  shorter \cup {Append(s, x) : s \in {q \in shorter : Len(q) = n - 1}, x \in S}
PageEntries ==
    {[kind |-> "PageEntry", changes |-> cs] : cs \in SeqsUpTo(Changes, MaxChanges) \ {<<>>}}
LaterEntries ==
    {[kind |-> "PageEntry",
      changes |-> <<FacebookFeed([cls |-> "FeedNewPost", verb |-> "add",
                                  post_id |-> "1_3", message |-> "m1",
                                  created_time |-> 1, from_ |-> "u1"])>>]}
FeedPages ==
    {[object |-> "page", entry |-> <<e>> \o later] :
        e \in PageEntries, later \in SeqsUpTo(LaterEntries, MaxEntries - 1)}

NextFeed ==
    \/ \E page \in FeedPages : handle_feed_event(page)
    \/ \E i \in 1..Len(invocations) : InvokeRun(i)

SpecFeed == Init /\ [][NextFeed]_vars

\* The bodies POSTed to /webhook: edited photo posts with one more key than the
\* cache holds, and added status posts.
PhotoPostIds == {"1_" \o ToString(n + 1) : n \in 1..(maxsize + 1)}
PageBody(changes) ==
    [object |-> "page", entry |-> <<[kind |-> "PageEntry", changes |-> changes]>>]
PhotoBodies ==
    {PageBody(<<FacebookFeed(v)>>) :
        v \in FeedNewPostWithPhotoObjects({"u1"}, {"l1"}, {"m1"}, PhotoPostIds, {"edited"})}
StatusAdd(post_id) ==
    FacebookFeed([cls |-> "FeedNewPost", verb |-> "add", post_id |-> post_id,
                  message |-> "m1", created_time |-> 1, from_ |-> "u1"])
StatusBodies == {PageBody(<<StatusAdd(p)>>) : p \in PostIds}
WebhookBodies == PhotoBodies \cup {PageBody(<<StatusAdd("1_2")>>)}

Modes == {"subscribe", "unsubscribe"}
Tokens == {verify_token, "guess"}
Challenges == {"c1", "c2"}

NextListener ==
    \/ \E w \in 1..MaxWorkers, b \in WebhookBodies : PostWebhook(w, b)
    \/ \E w \in 1..MaxWorkers : handle_webhook_events(w)
    \/ \E w \in 1..MaxWorkers : _handle_page_events(w)

SpecListener == Init /\ [][NextListener]_vars

\* Bodies with several changes: an edited photo post in front of or behind an
\* added status post, and alone.
EditedPhoto(post_id) ==
    FacebookFeed(CHOOSE v \in FeedNewPostWithPhotoObjects({"u1"}, {"l1"}, {"m1"},
                                                         {post_id}, {"edited"}) : TRUE)
MultiChangeBodies ==
    {PageBody(<<EditedPhoto("1_2"), StatusAdd("1_3")>>),
     PageBody(<<StatusAdd("1_3"), EditedPhoto("1_2")>>),
     PageBody(<<EditedPhoto("1_2")>>)}

NextListenerMulti ==
    \/ \E w \in 1..MaxWorkers, b \in MultiChangeBodies : PostWebhook(w, b)
    \/ \E w \in 1..MaxWorkers : handle_webhook_events(w)
    \/ \E w \in 1..MaxWorkers : _handle_page_events(w)

SpecListenerMulti == Init /\ [][NextListenerMulti]_vars

\* Edited photo posts that differ from one of them in one field, or in link
\* and from.
PhotoVariants ==
    LET v == EditedPhoto("1_2").value
    IN  {v, [v EXCEPT !.link = "l2"], [v EXCEPT !.from_ = "u2"],
         [v EXCEPT !.link = "l2", !.from_ = "u2"], [v EXCEPT !.message = "m2"],
         [v EXCEPT !.post_id = "1_3"], [v EXCEPT !.created_time = 2],
         [v EXCEPT !.photo_id = "ph2"], [v EXCEPT !.published = 2]}

NextDedupKey ==
    \/ /\ arrivals < MaxPosts + 1
       /\ \E w \in 1..MaxWorkers, v \in PhotoVariants :
              PostWebhook(w, PageBody(<<FacebookFeed(v)>>))
    \/ \E w \in 1..MaxWorkers : handle_webhook_events(w)
    \/ \E w \in 1..MaxWorkers : _handle_page_events(w)

SpecDedupKey == Init /\ [][NextDedupKey]_vars

NextEndToEnd ==
    \/ \E f \in HandlerFuncs : Register("onNewPost", 0, f)
    \/ \E w \in 1..MaxWorkers, b \in StatusBodies : PostWebhook(w, b)
    \/ \E w \in 1..MaxWorkers : handle_webhook_events(w)
    \/ \E w \in 1..MaxWorkers : _handle_page_events(w)

SpecEndToEnd == Init /\ [][NextEndToEnd]_vars

NextVerify ==
    \E m \in Modes, t \in Tokens, c \in Challenges : verify_webhook(m, t, c)

SpecVerify == Init /\ [][NextVerify]_vars

\* Reaction changes: each alone in its entry, and an added post reaction
\* followed by a comment reaction of any verb.
ReactionChanges ==
    {FacebookFeed(v) : v \in FeedNewReactionOnPostValues \cup FeedNewReactionOnCommentValues}
ReactionPages ==
    {PageBody(<<c>>) : c \in ReactionChanges}
    \cup {PageBody(<<c1, c2>>) :
             c1 \in {c \in ReactionChanges : c.value.cls = "FeedNewReactionOnPost"
                                               /\ c.value.verb = "add"},
             c2 \in {c \in ReactionChanges : c.value.cls = "FeedNewReactionOnComment"}}

\* Reaction changes handed to the classifier, and POSTed to /webhook.
NextReaction ==
    \/ \E page \in ReactionPages : handle_feed_event(page)
    \/ \E i \in 1..Len(invocations) : InvokeRun(i)
    \/ \E w \in 1..MaxWorkers, b \in ReactionPages : arrivals < MaxPosts /\ PostWebhook(w, b)
    \/ \E w \in 1..MaxWorkers : handle_webhook_events(w)
    \/ \E w \in 1..MaxWorkers : _handle_page_events(w)

SpecReaction == Init /\ [][NextReaction]_vars

\* Messaging envelopes: every payload alone in its entry, and a message or a
\* reaction followed by each payload.
MessageBody(messages) ==
    [object |-> "page", entry |-> <<[kind |-> "MessageEntry", messages |-> messages]>>]
MessagePages ==
    {MessageBody(<<Message(t)>>) : t \in MessageTypeValues}
    \cup {MessageBody(<<Message(t1), Message(t2)>>) :
             t1 \in MessageContentValues \cup MessageReactionContentValues,
             t2 \in MessageTypeValues}

NextMessage ==
    \/ \E page \in MessagePages : handle_message_event(page)
    \/ \E i \in 1..Len(invocations) : InvokeRun(i)

SpecMessage == Init /\ [][NextMessage]_vars

\* Raw messaging elements: any set of payload keys, all of their values
\* conforming or none, with or without well-formed sender, recipient, timestamp.
RawMessages ==
    UNION {{[keys |-> ks, conforming |-> cs, base |-> b] : cs \in {{}, ks}, b \in BOOLEAN} :
              ks \in SUBSET {message_types_keys[n] : n \in 1..Len(message_types_keys)}}

NextValidateMessage ==
    /\ validations = <<>>
    /\ \E data \in RawMessages : ValidateMessage(data)

SpecValidateMessage == Init /\ [][NextValidateMessage]_vars

\* Ids: the strings of one to MaxIdLen characters among digits and underscores.
Alphabet == {"1", "2", "_"}
Ids == UNION {[1..n -> Alphabet] : n \in 1..MaxIdLen}
RawComments ==
    [item : {"comment"}, message : {"m1"}, keys : {{"photo", "video"}},
     post_id : Ids, parent_id : Ids, verb : {"add"}]

NextValidateComment ==
    /\ validations = <<>>
    /\ \E cls \in CommentFamily, data \in RawComments : ValidateComment(cls, data)

SpecValidateComment == Init /\ [][NextValidateComment]_vars

\* Raw comment values with well-formed ids: with or without text, with any of
\* the keys photo and video.
RawFeedComments ==
    [item : {"comment"}, message : {"m1", None}, keys : SUBSET {"photo", "video"},
     post_id : {<<"1", "_", "2">>, <<"2", "_", "1">>},
     parent_id : {<<"2", "_", "1">>, <<"1", "_", "1">>}, verb : FEED_VERB_TYPES]

NextValidateFeed ==
    /\ validations = <<>>
    /\ \E data \in RawFeedComments, mode \in UnionModes : ValidateFeedValue(data, mode)

SpecValidateFeed == Init /\ [][NextValidateFeed]_vars

\* The user of an event's post and comment objects, awaiting each call before
\* the next on the same object.
NextNodes ==
    \/ \E n \in DOMAIN nodes : initialize_properties(n)
    \/ \E n \in DOMAIN nodes : refresh(n)
    \/ \E n \in DOMAIN nodes, outcome \in Outcomes : NodeResponse(n, outcome)
    \/ \E n \in DOMAIN nodes : put_initialized_properties(n)

SpecNodes == Init /\ [][NextNodes]_vars

\* Sends of local files from several message objects, overlapping in time.
NextMessenger ==
    \/ /\ Len(messenger.sends) < MaxSends
       /\ \E message \in MessageObjects, attachment \in LocalFiles :
              send_attachments(message, attachment)
    \/ \E u \in 1..Len(messenger.uploads), outcome \in Outcomes,
          policy \in FailurePolicies : UploadResponse(u, outcome, policy)
    \/ \E s \in 1..Len(messenger.sends) : SendResume(s)
    \/ \E key \in DOMAIN messenger.cache : CacheExpire(key)

SpecMessenger == Init /\ [][NextMessenger]_vars

\* Logins of one session object; a login may be started while another awaits
\* its answer.
AccessTokens == {"t1", "t2"}

NextLogin ==
    \/ /\ Len(graph.calls) < MaxLogins
       /\ \E token \in AccessTokens, skip \in BOOLEAN : login_with_access_token(token, skip)
    \/ \E c \in 1..Len(graph.calls), status_code \in StatusCodes :
           LoginResponse(c, status_code)

SpecLogin == Init /\ [][NextLogin]_vars

-----------------------------------------------------------------------------
(* Properties *)

\* The dedup key of the j-th lookup (<<>> when the request is not deduplicated).
LogKey(j) == log[j].key

TaskIds(i) == 1..Len(invocations[i].tasks)

C2_HandlersRunOnce ==
    \A i \in 1..Len(invocations) :
        LET inv == invocations[i] IN
        (inv.pc = "returned" /\ TypeOf(inv.event) \in EventTypes)
            => \A g \in 1..Len(inv.atStart) :
                   \A f \in Range(inv.atStart[g].handlers) :
                       Cardinality({t \in TaskIds(i) :
                                       /\ inv.tasks[t].func = f
                                       /\ inv.tasks[t].priority = inv.atStart[g].priority
                                       /\ inv.tasks[t].arg = inv.event})
                           = Occurrences(inv.atStart[g].handlers, f)

\* C3: when invoke has raised to its caller, no handler of the group that
\* failed is still running.
C3_RaiseAfterSiblings ==
    \A i \in 1..Len(invocations) :
        invocations[i].pc = "raised"
            => \A t \in CurrentTasks(invocations[i]) :
                   invocations[i].tasks[t].status # "running"

\* The handler runs, over all invocations, of handler f with an onNewPost event
\* of the given post.
NewPostRuns(f, post_id) ==
    UNION {{<<i, t>> : t \in {u \in TaskIds(i) :
                                /\ invocations[i].tasks[u].func = f
                                /\ TypeOf(invocations[i].tasks[u].arg) = "onNewPost"
                                /\ invocations[i].tasks[u].arg.attrs.post_id = post_id}} :
           i \in 1..Len(invocations)}

\* How often f was registered for onNewPost in the registry d.
RECURSIVE RegisteredCount(_, _)
RegisteredCount(groups, f) ==
    IF groups = <<>> THEN 0
    ELSE Occurrences(Head(groups).handlers, f) + RegisteredCount(Tail(groups), f)

\* The runs of f that the answered requests of log l call for: one per
\* registration of f, for each request of one entry with one added status post
\* of the given post.
RECURSIVE ExpectedRuns(_, _, _)
ExpectedRuns(l, f, post_id) ==
    IF l = <<>> THEN 0
    ELSE LET r == l[Len(l)]
             value == r.page_object.entry[1].changes[1].value
         IN  ExpectedRuns(SubSeq(l, 1, Len(l) - 1), f, post_id)
             + (IF /\ r.status = 200
                   /\ Len(r.page_object.entry) = 1
                   /\ Len(r.page_object.entry[1].changes) = 1
                   /\ value.cls = "FeedNewPost" /\ value.verb = "add"
                   /\ value.post_id = post_id
                THEN RegisteredCount(SetDefault(r.handlers, "onNewPost"), f)
                ELSE 0)

\* C4: once every POST received has been answered and no invoke is pending,
\* each registered NewPost handler has been run exactly once for each request
\* of one entry with one added status post, with a NewPost event of the
\* payload's post_id whose with_attachment is false.
C4_NewPostDelivered ==
    (/\ \A w \in 1..MaxWorkers : requests[w].pc = "idle"
     /\ \A i \in 1..Len(invocations) : invocations[i].pc \in {"returned", "raised"})
        => \A f \in HandlerFuncs, post_id \in PostIds :
               /\ Cardinality(NewPostRuns(f, post_id)) = ExpectedRuns(log, f, post_id)
               /\ \A r \in NewPostRuns(f, post_id) :
                      LET attrs == invocations[r[1]].tasks[r[2]].arg.attrs IN
                      /\ "with_attachment" \in DOMAIN attrs
                      /\ attrs.with_attachment = FALSE

\* The keys recorded by the lookups of a log, in the order they were stored.
RECURSIVE Recorded(_)
Recorded(l) ==
    IF l = <<>> THEN <<>>
    ELSE Recorded(SubSeq(l, 1, Len(l) - 1))
         \o (IF l[Len(l)].key # <<>> /\ ~l[Len(l)].suppressed
             THEN <<l[Len(l)].key>> ELSE <<>>)

\* C5: of two requests with the identical payload whose first change is an
\* edited post-with-photo, with no eviction of its key in between, the first
\* (the key being absent) is processed and recorded and the second is
\* suppressed and never reaches _handle_page_events.
C5_SecondIsSuppressed ==
    \A j \in 1..Len(log) :
        Deduplicated(log[j].page_object)
            => /\ (\A i \in 1..(j - 1) : LogKey(i) # LogKey(j)) => ~log[j].suppressed
               /\ ~log[j].suppressed => CacheGet(cache, LogKey(j))
                                        \/ \E l \in (j + 1)..Len(log) : LogKey(j) \in log[l].evicted
               /\ log[j].suppressed => ~log[j].handled /\ log[j].status = 200
               /\ \A i \in 1..(j - 1) :
                      (/\ log[i].page_object = log[j].page_object
                       /\ ~log[i].suppressed
                       /\ \A l \in (i + 1)..j : LogKey(j) \notin log[l].evicted)
                          => log[j].suppressed

\* C5 witness: the same payload was looked up twice in a row with the results
\* (false, true), and the first request has been processed.
C5_Witness ==
    \E i, j \in 1..Len(log) :
        /\ i < j
        /\ Deduplicated(log[i].page_object)
        /\ log[i].page_object = log[j].page_object
        /\ ~log[i].suppressed /\ log[i].handled
        /\ log[j].suppressed

\* C6: the cache holds exactly the last maxsize recorded keys, oldest first; a
\* lookup is suppressed exactly when its key is among the last maxsize keys
\* recorded before it, so the first key is no longer suppressed once maxsize
\* further keys have been recorded after it.
C6_FifoEviction ==
    /\ cache = LastN(Recorded(log), maxsize)
    /\ \A j \in 1..Len(log) :
           Deduplicated(log[j].page_object)
               => (log[j].suppressed
                      <=> LogKey(j) \in Range(LastN(Recorded(SubSeq(log, 1, j - 1)), maxsize)))

\* C6 witness: maxsize + 1 distinct keys were recorded, then the first payload
\* was sent again and was not suppressed.
C6_Witness ==
    /\ Len(Recorded(log)) = maxsize + 2
    /\ Cardinality(Range(SubSeq(Recorded(log), 1, maxsize + 1))) = maxsize + 1
    /\ Recorded(log)[maxsize + 2] = Recorded(log)[1]
    /\ ~log[Len(log)].suppressed
    /\ log[Len(log)].page_object = log[1].page_object

\* C7: two requests that are in flight at once and were both passed on do not
\* have the same dedup key, unless the key was evicted between their lookups.
C7_AtMostOnePassedOn ==
    \A w1, w2 \in 1..MaxWorkers :
        (/\ w1 # w2
         /\ requests[w1].pc = "_handle_page_events"
         /\ requests[w2].pc = "_handle_page_events"
         /\ requests[w1].n < requests[w2].n
         /\ LogKey(requests[w1].n) # <<>>
         /\ LogKey(requests[w1].n) = LogKey(requests[w2].n))
            => \E l \in (requests[w1].n + 1)..requests[w2].n :
                   LogKey(requests[w1].n) \in log[l].evicted

\* C7 witness: while a request that was passed on is still in flight, another
\* request with the same key has been looked up and suppressed.
C7_Witness ==
    \E w \in 1..MaxWorkers :
        /\ requests[w].pc = "_handle_page_events"
        /\ LogKey(requests[w].n) # <<>>
        /\ \E l \in (requests[w].n + 1)..Len(log) :
               /\ LogKey(l) = LogKey(requests[w].n)
               /\ log[l].suppressed

\* C8: GET /webhook answers 200 only when hub.verify_token is the configured
\* token, then with hub.challenge as the body, and answers 403 to every
\* request with another token.
C8_TokenRequired ==
    \A v \in 1..Len(verifications) :
        LET q == verifications[v] IN
        /\ q.response.status = 200 => q.token = verify_token /\ q.response.body = q.challenge
        /\ q.token # verify_token => q.response.status = 403

\* The invoke coroutines scheduled for change c of call number call.
Dispatched(call, c) ==
    {i \in 1..Len(invocations) : invocations[i].src = [call |-> call, change |-> c]}

\* C9: for every Comment-family change with verb add, handle_feed_event
\* dispatches exactly one Comment event with the comment id, with_attachment
\* true exactly for the photo and video variants, and the change's is_reply.
C9_CommentDispatched ==
    \A call \in 1..Len(feedCalls) :
        LET changes == feedCalls[call].entry[1].changes IN
        \A c \in 1..Len(changes) :
            (isinstance(changes[c].value, CommentFamily) /\ changes[c].value.verb = "add")
                => /\ Cardinality(Dispatched(call, c)) = 1
                   /\ \A i \in Dispatched(call, c) :
                          /\ TypeOf(invocations[i].event) = "onComment"
                          /\ invocations[i].event.attrs.comment_id = changes[c].value.comment_id
                          /\ invocations[i].event.attrs.with_attachment
                                 = isinstance(changes[c].value, {"FeedCommentWithPhoto",
                                                                 "FeedCommentWithVideo"})
                          /\ invocations[i].event.attrs.is_reply = changes[c].value.is_reply

\* C10: for every NewPost-family change, handle_feed_event dispatches one
\* NewPost event when the verb is add or edited and no event for another verb.
C10_NewPostOnAddOrEdited ==
    \A call \in 1..Len(feedCalls) :
        LET changes == feedCalls[call].entry[1].changes IN
        \A c \in 1..Len(changes) :
            isinstance(changes[c].value, NewPostFamily)
                => /\ \A i \in Dispatched(call, c) : TypeOf(invocations[i].event) = "onNewPost"
                   /\ Cardinality(Dispatched(call, c))
                          = IF changes[c].value.verb \in {"add", "edited"} THEN 1 ELSE 0

\* C11: for every reaction change, handle_feed_event dispatches exactly one
\* event when the verb is add (onPostReaction for a reaction on a post,
\* onCommentReaction for a reaction on a comment, carrying the change's ids and
\* reaction type) and none when the verb is edit or remove; and every POST of
\* a reaction change that has been answered was answered 200.
C11_ReactionDispatch ==
    /\ \A call \in 1..Len(feedCalls) :
           LET changes == feedCalls[call].entry[1].changes IN
           \A c \in 1..Len(changes) :
               LET value == changes[c].value IN
               isinstance(value, {"FeedNewReactionOnPost", "FeedNewReactionOnComment"})
                   => /\ Cardinality(Dispatched(call, c))
                             = IF value.verb = "add" THEN 1 ELSE 0
                      /\ \A i \in Dispatched(call, c) :
                             LET event == invocations[i].event IN
                             /\ event.attrs.reaction_type = value.reaction_type
                             /\ event.attrs.from_id = value.from_
                             /\ IF value.cls = "FeedNewReactionOnPost"
                                THEN /\ TypeOf(event) = "onPostReaction"
                                     /\ event.attrs.post_id = value.post_id
                                ELSE /\ TypeOf(event) = "onCommentReaction"
                                     /\ event.attrs.comment_id = value.comment_id
    /\ \A j \in 1..Len(log) :
           /\ log[j].status \in {0, 200}
           /\ log[j].handled => log[j].status = 200

\* C11 witness: one call has dispatched an event for an added post reaction
\* and none for the removed comment reaction next to it, and a POST of a
\* removed reaction has been answered 200.
C11_Witness ==
    /\ \E call \in 1..Len(feedCalls) :
           LET changes == feedCalls[call].entry[1].changes IN
           /\ Len(changes) = 2
           /\ changes[1].value.verb = "add" /\ Cardinality(Dispatched(call, 1)) = 1
           /\ changes[2].value.verb = "remove" /\ Dispatched(call, 2) = {}
    /\ \E j \in 1..Len(log) :
           /\ log[j].page_object.entry[1].changes[1].value.verb = "remove"
           /\ log[j].handled /\ log[j].status = 200

\* C12: for every messaging element, handle_message_event dispatches exactly
\* one onMessage event, built from the element, when the payload is a
\* message, exactly one onMessageReaction event when it is a reaction, and no
\* event for an edit, read, optin, postback or referral.
C12_MessageDispatch ==
    \A call \in 1..Len(feedCalls) :
        LET messages == feedCalls[call].entry[1].messages IN
        \A m \in 1..Len(messages) :
            LET message_type == messages[m].message_type IN
            /\ isinstance(message_type, {"MessageContent"})
                   => /\ Cardinality(Dispatched(call, m)) = 1
                      /\ \A i \in Dispatched(call, m) :
                             LET event == invocations[i].event IN
                             /\ TypeOf(event) = "onMessage"
                             /\ event.attrs.message_object._message_id = message_type.mid
                             /\ event.attrs.message_object._text = message_type.text
                             /\ event.attrs.message_object._sender = messages[m].sender
            /\ isinstance(message_type, {"MessageReactionContent"})
                   => /\ Cardinality(Dispatched(call, m)) = 1
                      /\ \A i \in Dispatched(call, m) :
                             LET event == invocations[i].event IN
                             /\ TypeOf(event) = "onMessageReaction"
                             /\ event.attrs.emoji = message_type.emoji
                             /\ event.attrs.reaction_description = message_type.reaction
                             /\ event.attrs.message_object._message_id = message_type.mid
            /\ ~isinstance(message_type, {"MessageContent", "MessageReactionContent"})
                   => Dispatched(call, m) = {}

\* C12 witness: one call for a text message followed by an edit has
\* dispatched one event for the first element, whose invoke has run, and none
\* for the second.
C12_Witness ==
    \E call \in 1..Len(feedCalls) :
        LET messages == feedCalls[call].entry[1].messages IN
        /\ Len(messages) = 2
        /\ messages[1].message_type.cls = "MessageContent"
        /\ messages[1].message_type.text = "hi"
        /\ messages[2].message_type.cls = "MessageEditContent"
        /\ \E i \in Dispatched(call, 1) : invocations[i].pc = "returned"
        /\ Dispatched(call, 2) = {}

\* C13: a messaging element is accepted only if exactly one of the seven
\* payload keys is present, and its message_type is then of the class of that
\* key; with none or more than one of them present validation fails.
C13_ExactlyOneKey ==
    \A v \in 1..Len(validations) :
        LET data == validations[v].data
            result == validations[v].result
        IN  validations[v].model = "Message"
                => /\ result.ok
                          => /\ Cardinality(data.keys) = 1
                             /\ \A name \in data.keys :
                                    result.attrs.message_type = message_types(name)
                   /\ Cardinality(data.keys) # 1 => ~result.ok

\* C13 witness: an element with the one key reaction was accepted as a
\* MessageReactionContent.
C13_Witness ==
    \E v \in 1..Len(validations) :
        /\ validations[v].model = "Message"
        /\ validations[v].data.keys = {"reaction"}
        /\ validations[v].result.ok
        /\ validations[v].result.attrs.message_type = "MessageReactionContent"

\* The positions of the underscores of a str, and the characters from position
\* a up to, not including, the first underscore at or after a.
Underscores(s) == {i \in 1..Len(s) : s[i] = "_"}
SegmentFrom(s, a) ==
    LET stops == {i \in Underscores(s) : i >= a}
        b == IF stops = {} THEN Len(s) + 1
             ELSE CHOOSE i \in stops : \A j \in stops : i <= j
    IN  SubSeq(s, a, b - 1)
FirstUnderscore(s) == CHOOSE i \in Underscores(s) : \A j \in Underscores(s) : i <= j

\* C14: a Comment-family value whose post_id and parent_id each contain an
\* underscore is accepted by its class, with is_reply true exactly when the
\* part of parent_id before its first underscore equals the part of post_id
\* between its first underscore and its second (or its end).
C14_IsReplyBySegments ==
    \A v \in 1..Len(validations) :
        LET data == validations[v].data
            result == validations[v].result
        IN  (/\ validations[v].model \in CommentFamily
             /\ Underscores(data.post_id) # {}
             /\ Underscores(data.parent_id) # {})
                => /\ result.ok
                   /\ result.attrs.is_reply
                          <=> (SegmentFrom(data.parent_id, 1)
                                   = SegmentFrom(data.post_id,
                                                 FirstUnderscore(data.post_id) + 1))

\* C14 witness: post_id 1_2 with parent_id 2_1 was accepted with is_reply true.
C14_Witness ==
    \E v \in 1..Len(validations) :
        /\ validations[v].model \in CommentFamily
        /\ validations[v].data.post_id = <<"1", "_", "2">>
        /\ validations[v].data.parent_id = <<"2", "_", "1">>
        /\ validations[v].result.ok
        /\ validations[v].result.attrs.is_reply

\* C15: a Comment-family value whose post_id or parent_id contains no
\* underscore is accepted by its class, with is_reply false.
C15_NoUnderscoreAccepted ==
    \A v \in 1..Len(validations) :
        LET data == validations[v].data
            result == validations[v].result
        IN  (/\ validations[v].model \in CommentFamily
             /\ Underscores(data.post_id) = {} \/ Underscores(data.parent_id) = {})
                => /\ result.ok
                   /\ ~result.attrs.is_reply

\* C16: a feed change value with item comment that carries both a video key
\* and a photo key is accepted as a FeedCommentWithVideo.
C16_VideoBeforePhoto ==
    \A v \in 1..Len(validations) :
        LET data == validations[v].data
            result == validations[v].result
        IN  (/\ validations[v].model = "FacebookFeed.value"
             /\ data.item = "comment"
             /\ {"photo", "video"} \subseteq data.keys)
                => /\ result.ok
                   /\ result.attrs.cls = "FeedCommentWithVideo"

C18_RaiseAbortsLaterGroups ==
    [][\A i \in 1..Len(invocations) :
           \A t \in 1..Len(invocations[i].tasks) :
               invocations[i].tasks[t].status = "raised"
                   => \A u \in 1..Len(invocations'[i].tasks) :
                          (u > Len(invocations[i].tasks))
                              => ~(invocations'[i].tasks[u].priority
                                      > invocations[i].tasks[t].priority)]_vars

\* An invoke has raised to its caller because of a handler, and a group with a
\* higher priority value is registered that it has not started.
C18_Witness ==
    \E i \in 1..Len(invocations) :
        /\ invocations[i].pc = "raised"
        /\ \E t \in 1..Len(invocations[i].tasks) :
               /\ invocations[i].tasks[t].status = "raised"
               /\ \E g \in 1..Len(HandlerList(invocations[i])) :
                      /\ HandlerList(invocations[i])[g].priority
                             > invocations[i].tasks[t].priority
                      /\ \A u \in 1..Len(invocations[i].tasks) :
                             invocations[i].tasks[u].priority
                                 # HandlerList(invocations[i])[g].priority

\* C19: invoke for an event type that has no registered handler (the class
\* handed to invoke, or the class of the event object handed to it) returns
\* without error on its first run, having started no handler, and leaves the
\* registry as it was.
C19_NoHandlerIsNoOp ==
    [][\A i \in 1..Len(invocations) :
           (/\ invocations[i].pc = "scheduled"
            /\ invocations'[i].pc # "scheduled"
            /\ invocations[i].event.cls \notin DOMAIN handlers)
               => /\ invocations'[i].pc = "returned"
                  /\ invocations'[i].tasks = <<>>
                  /\ handlers' = handlers]_vars

\* An invoke for a type without handlers has returned while handlers of
\* another type are registered.
C19_Witness ==
    \E i \in 1..Len(invocations) :
        /\ invocations[i].pc = "returned"
        /\ invocations[i].tasks = <<>>
        /\ invocations[i].event.cls \notin DOMAIN handlers
        /\ DOMAIN handlers # {}

\* C20: a validated login whose request is answered with a status other than
\* 200 ends in LoginError and leaves access_token as it was; access_token
\* takes a new value only as the token of a login that ends after a 200
\* answer or that skips the validation.
C20_LoginValidated ==
    [][/\ \A c \in 1..Len(graph.calls) :
              (/\ graph.calls[c].pc = "awaiting"
               /\ graph'.calls[c].pc # "awaiting"
               /\ graph'.calls[c].status_code # 200)
                  => /\ graph'.calls[c].pc = "LoginError"
                     /\ graph'.access_token = graph.access_token
       /\ graph'.access_token # graph.access_token
              => \E c \in 1..Len(graph'.calls) :
                     /\ c > Len(graph.calls) \/ graph.calls[c].pc = "awaiting"
                     /\ graph'.calls[c].pc = "returned"
                     /\ graph'.calls[c].skip_validation \/ graph'.calls[c].status_code = 200
                     /\ graph'.access_token = graph'.calls[c].user_access_token]_vars

\* A login was refused with a status other than 200 while the session holds
\* the token of another, successful login.
C20_Witness ==
    \E c \in 1..Len(graph.calls) :
        /\ graph.calls[c].pc = "LoginError"
        /\ graph.calls[c].status_code # 200
        /\ graph.access_token # None
        /\ graph.access_token # graph.calls[c].user_access_token

GroupOf(groups, priority) ==
    IF \E g \in 1..Len(groups) : groups[g].priority = priority
    THEN groups[CHOOSE g \in 1..Len(groups) : groups[g].priority = priority].handlers
    ELSE <<>>

IsPrefix(s, t) == Len(s) <= Len(t) /\ SubSeq(t, 1, Len(s)) = s

\* The functions of the tasks the invoke created in one round, in the order
\* of their creation, and the priority of their group.
Launched(inv, round) ==
    LET ts == {t \in 1..Len(inv.tasks) : inv.tasks[t].round = round}
        first == CHOOSE t \in ts : \A u \in ts : t <= u
    IN  [k \in 1..Cardinality(ts) |-> inv.tasks[first + k - 1].func]

LaunchedPriority(inv, round) ==
    inv.tasks[CHOOSE t \in 1..Len(inv.tasks) : inv.tasks[t].round = round].priority

\* C23: after every step that changes the registry the groups of each event
\* type have strictly ascending priorities (so one group per priority) and
\* the handlers already in a group are in front of the one the step added; and
\* every step in which an invoke launches a group creates one task for each
\* handler of the group, in the order of the group.
C23_SortedGroupsInOrder ==
    [][/\ handlers' # handlers
              => \A T \in DOMAIN handlers' :
                     /\ \A g \in 1..Len(handlers'[T]) :
                            /\ handlers'[T][g].handlers # <<>>
                            /\ g > 1 => handlers'[T][g - 1].priority
                                            < handlers'[T][g].priority
                            /\ IsPrefix(GroupOf(SetDefault(handlers, T),
                                                handlers'[T][g].priority),
                                        handlers'[T][g].handlers)
                     /\ \A g \in 1..Len(SetDefault(handlers, T)) :
                            GroupOf(handlers'[T], handlers[T][g].priority) # <<>>
       /\ \A i \in 1..Len(invocations) :
              invocations'[i].round > invocations[i].round
                  => Launched(invocations'[i], invocations'[i].round)
                         = GroupOf(handlers'[invocations'[i].key],
                                   LaunchedPriority(invocations'[i],
                                                    invocations'[i].round))]_vars

\* Two groups are registered, the first with two different handlers, and an
\* invoke has launched the handlers of the first group.
C23_Witness ==
    \E i \in 1..Len(invocations) :
        /\ invocations[i].round >= 1
        /\ Len(HandlerList(invocations[i])) = 2
        /\ Len(HandlerList(invocations[i])[1].handlers) = 2
        /\ HandlerList(invocations[i])[1].handlers[1]
               # HandlerList(invocations[i])[1].handlers[2]
        /\ Launched(invocations[i], 1) = HandlerList(invocations[i])[1].handlers

\* The rounds in which the invoke launched the group of the given priority.
RoundsOf(inv, priority) ==
    {round \in 1..inv.round : LaunchedPriority(inv, round) = priority}

\* C24: an invoke that has been suspended on a group launches each group that
\* was registered before it began at most once, whatever is registered in the
\* meantime, and when it has returned it has launched each of them once, with
\* every handler the group had when the invoke began.
C24_RegisterDuringInvoke ==
    \A i \in 1..Len(invocations) :
        LET inv == invocations[i] IN
        inv.round >= 1
            => \A g \in 1..Len(inv.atStart) :
                   LET rounds == RoundsOf(inv, inv.atStart[g].priority)
                   IN  /\ Cardinality(rounds) <= 1
                       /\ inv.pc = "returned"
                              => /\ Cardinality(rounds) = 1
                                 /\ \A round \in rounds :
                                        IsPrefix(inv.atStart[g].handlers,
                                                 Launched(inv, round))

\* C25: a change that is not an edited post-with-photo is never suppressed,
\* whatever other changes its request carries, and a request without an
\* edited post-with-photo in front computes no key and leaves the cache alone.
C25_OnlyEditedPhotoSuppressed ==
    \A j \in 1..Len(log) :
        LET changes == log[j].page_object.entry[1].changes IN
        /\ \A c \in 1..Len(changes) :
               ~(/\ isinstance(changes[c].value, {"FeedNewPostWithPhoto"})
                 /\ changes[c].value.verb = "edited")
                   => ~log[j].suppressed
        /\ ~Deduplicated(log[j].page_object)
               => log[j].key = <<>> /\ log[j].evicted = {}

\* The fields in which two values of a FeedNewPostWithPhoto differ.
Differing(v1, v2) == {f \in Range(PhotoFields) : v1[f] # v2[f]}

\* C26: two edited post-with-photo changes that differ only in link and/or
\* from get the same key, and the second is suppressed while the key of the
\* first is still stored; two that differ in another field get different
\* keys, and a change is not suppressed on account of changes with other keys.
C26_KeyIgnoresLinkAndFrom ==
    \A j \in 1..Len(log) :
        LET vj == log[j].page_object.entry[1].changes[1].value IN
        /\ \A i \in 1..(j - 1) :
               LET vi == log[i].page_object.entry[1].changes[1].value IN
               IF Differing(vi, vj) \subseteq {"link", "from_"}
               THEN /\ log[i].key = log[j].key
                    /\ (/\ ~log[i].suppressed
                        /\ \A l \in (i + 1)..j : log[i].key \notin log[l].evicted)
                           => log[j].suppressed
               ELSE log[i].key # log[j].key
        /\ (\A i \in 1..(j - 1) :
                ~(Differing(log[i].page_object.entry[1].changes[1].value, vj)
                      \subseteq {"link", "from_"}))
               => ~log[j].suppressed

\* A change was passed on and a later one that differs from it in link and in
\* from was suppressed.
C26_Witness ==
    \E i, j \in 1..Len(log) :
        /\ i < j
        /\ Differing(log[i].page_object.entry[1].changes[1].value,
                     log[j].page_object.entry[1].changes[1].value) = {"link", "from_"}
        /\ ~log[i].suppressed
        /\ log[j].suppressed

\* C27: the dedup cache never holds more keys than its capacity, and holds no
\* key twice.
C27_CacheBounded ==
    /\ Len(cache) <= maxsize
    /\ Cardinality(Range(cache)) = Len(cache)

\* C27 witness: more distinct keys than the cache can hold have been recorded,
\* a key was evicted for the last of them, and the cache is full.
C27_Witness ==
    /\ Cardinality(Range(Recorded(log))) > maxsize
    /\ \E j \in 1..Len(log) : log[j].evicted # {}
    /\ Len(cache) = maxsize

\* C28: a request whose key is found in the cache leaves the cache as it was,
\* the same keys in the same order.
C28_HitLeavesCache ==
    [][(/\ Len(log') = Len(log) + 1
        /\ log'[Len(log')].suppressed)
           => cache' = cache]_vars

\* C28 witness: the last request was suppressed on the oldest of several stored
\* keys, and that key is still the oldest.
C28_Witness ==
    /\ Len(log) > 0
    /\ log[Len(log)].suppressed
    /\ Len(cache) > 1
    /\ cache[1] = LogKey(Len(log))

\* C29: every NewPost event handle_feed_event dispatches carries a
\* with_attachment attribute, true exactly when the change it was built from is
\* a FeedNewPostWithPhoto, a FeedNewPostWithManyPhotos or a FeedNewPostWithVideo.
C29_WithAttachmentCarried ==
    \A call \in 1..Len(feedCalls) :
        LET changes == feedCalls[call].entry[1].changes IN
        \A c \in 1..Len(changes) :
            \A i \in Dispatched(call, c) :
                LET event == invocations[i].event IN
                event.cls = "onNewPost"
                    => /\ "with_attachment" \in DOMAIN event.attrs
                       /\ event.attrs.with_attachment
                              = isinstance(changes[c].value,
                                           {"FeedNewPostWithPhoto",
                                            "FeedNewPostWithManyPhotos",
                                            "FeedNewPostWithVideo"})

\* Envelopes with several entries.  The first entry holds changes, or messages,
\* that each lead to one event; the later entries hold a post and a message
\* whose ids occur in no first entry.  The bodies POSTed to /webhook begin with
\* an edited photo post, an added status post or a message, followed by no
\* entry or by one with an edited photo post: the same one, or another.
LaterPostId == "1_9"
LaterMid == "mid9"
Envelope(first, later) == [object |-> "page", entry |-> <<first>> \o later]
HeadPageEntries ==
    {[kind |-> "PageEntry", changes |-> cs] :
        cs \in SeqsUpTo({StatusAdd("1_2"), EditedPhoto("1_3")}, MaxChanges) \ {<<>>}}
HeadMessageEntries ==
    {[kind |-> "MessageEntry", messages |-> ms] :
        ms \in SeqsUpTo({Message([cls |-> "MessageContent", mid |-> "mid1", text |-> "hi",
                                  attachments |-> <<>>, is_echo |-> FALSE]),
                         Message([cls |-> "MessageReactionContent", mid |-> "mid2",
                                  action |-> "react", emoji |-> "e1",
                                  reaction |-> "love"])}, MaxChanges) \ {<<>>}}
TailEntries ==
    {[kind |-> "PageEntry", changes |-> <<StatusAdd(LaterPostId)>>],
     [kind |-> "MessageEntry",
      messages |-> <<Message([cls |-> "MessageContent", mid |-> LaterMid, text |-> "hi",
                              attachments |-> <<>>, is_echo |-> FALSE])>>]}
EntryBodies ==
    {Envelope(first, later) :
        first \in {[kind |-> "PageEntry", changes |-> <<EditedPhoto("1_3")>>],
                   [kind |-> "PageEntry", changes |-> <<StatusAdd("1_2")>>],
                   [kind |-> "MessageEntry",
                    messages |-> <<Message([cls |-> "MessageContent", mid |-> "mid1",
                                            text |-> "hi", attachments |-> <<>>,
                                            is_echo |-> FALSE])>>]},
        later \in SeqsUpTo({[kind |-> "PageEntry", changes |-> <<EditedPhoto("1_3")>>],
                            [kind |-> "PageEntry",
                             changes |-> <<EditedPhoto(LaterPostId)>>]}, 1)}

\* A run calls the two classifiers, or POSTs to the listener: the listener
\* hands nothing to the classifiers.
NextEntries ==
    \/ /\ arrivals = 0
       /\ \E first \in HeadPageEntries, later \in SeqsUpTo(TailEntries, MaxEntries - 1) :
              handle_feed_event(Envelope(first, later))
    \/ /\ arrivals = 0
       /\ \E first \in HeadMessageEntries, later \in SeqsUpTo(TailEntries, MaxEntries - 1) :
              handle_message_event(Envelope(first, later))
    \/ /\ feedCalls = <<>>
       /\ arrivals < MaxPosts + 1
       /\ \E w \in 1..MaxWorkers, b \in EntryBodies : PostWebhook(w, b)
    \/ \E w \in 1..MaxWorkers : handle_webhook_events(w)
    \/ \E w \in 1..MaxWorkers : _handle_page_events(w)

SpecEntries == Init /\ [][NextEntries]_vars

\* The changes, or the messages, of the first entry of an envelope.
HeadItems(page_object) ==
    IF page_object.entry[1].kind = "PageEntry"
    THEN page_object.entry[1].changes
    ELSE page_object.entry[1].messages

\* A change that is an edited photo post.
IsEditedPhoto(x) ==
    /\ "value" \in DOMAIN x
    /\ x.value.cls = "FeedNewPostWithPhoto"
    /\ x.value.verb = "edited"

\* The post id or the message id an event was built from.
EventId(event) ==
    IF "post_id" \in DOMAIN event.attrs
    THEN event.attrs.post_id
    ELSE event.attrs.message_object._message_id

\* C30: a call of handle_feed_event or handle_message_event dispatches one
\* event for every change or message of entry[0], built from it, and no other
\* event: none carries the id of a later entry.  The dedup lookup depends on
\* entry[0].changes[0] alone: a request is suppressed exactly when that change
\* is an edited photo post recorded by an earlier request and still stored,
\* whatever the later entries hold, and every key stored is the key of such a
\* change.  Every request passed on is answered 200.
C30_FirstEntryOnly ==
    /\ \A i \in 1..Len(invocations) :
           /\ invocations[i].src.call \in 1..Len(feedCalls)
           /\ invocations[i].src.change
                  \in 1..Len(HeadItems(feedCalls[invocations[i].src.call]))
           /\ EventId(invocations[i].event) \notin {LaterPostId, LaterMid}
    /\ \A call \in 1..Len(feedCalls) :
           LET items == HeadItems(feedCalls[call]) IN
           \A c \in 1..Len(items) :
               /\ Cardinality(Dispatched(call, c)) = 1
               /\ \A i \in Dispatched(call, c) :
                      EventId(invocations[i].event)
                          = IF feedCalls[call].entry[1].kind = "PageEntry"
                            THEN items[c].value.post_id
                            ELSE items[c].message_type.mid
    /\ \A j \in 1..Len(log) :
           LET first == HeadItems(log[j].page_object)[1]
           IN  /\ log[j].suppressed
                      <=> /\ IsEditedPhoto(first)
                          /\ \E i \in 1..(j - 1) :
                                 /\ HeadItems(log[i].page_object)[1] = first
                                 /\ ~log[i].suppressed
                                 /\ \A l \in (i + 1)..j : log[i].key \notin log[l].evicted
               /\ log[j].handled => log[j].status = 200
               /\ log[j].status \in {0, 200}
    /\ \A k \in Range(cache) :
           \E j \in 1..Len(log) :
               /\ ~log[j].suppressed
               /\ IsEditedPhoto(HeadItems(log[j].page_object)[1])
               /\ k = DedupKey(HeadItems(log[j].page_object)[1].value)

\* C30 witness: one call for an envelope of several entries has dispatched an
\* event for each of the two changes or messages of its first entry.
C30_Witness ==
    \E call \in 1..Len(feedCalls) :
        /\ Len(feedCalls[call].entry) > 1
        /\ Len(HeadItems(feedCalls[call])) = 2
        /\ HeadItems(feedCalls[call])[1] # HeadItems(feedCalls[call])[2]
        /\ \A c \in 1..2 : Cardinality(Dispatched(call, c)) = 1

====
